---- MODULE Spec2Model ----
(***************************************************************************)
(* Model of graph-node's src/data/schema.rs: the fulltext directive        *)
(* extractor, the import parsers and resolver, the API schema builder and  *)
(* the identifier coercer.                                                 *)
(*                                                                         *)
(* Rust values are modelled as tagged records:                             *)
(*   Option<T>     None / Some(v)                                          *)
(*   Result<T, E>  Ok(v) / Err(e)                                          *)
(*   a panic (unwrap on None/Err, expect, todo!)   Panic                   *)
(*   q::Value      [tag |-> "String" | "Enum" | "Int" | "List" | "Object", *)
(*                  val |-> payload]; an Object's payload is a function    *)
(*                  from keys to values, a List's payload a sequence.      *)
(***************************************************************************)
EXTENDS Integers, Sequences, FiniteSets, TLC

VARIABLES
    store,                 \* the SubgraphStore: deployment id -> lookup outcome
    schema,                \* the shared, validated Schema value
    api,                   \* the shared ApiSchema value the readers hold
    pc,                    \* per thread: position inside from_api_schema
    INTROSPECTION_SCHEMA,  \* the lazy_static: [state, runs]
    last                   \* the last completed call: [op, arg, res, ...]

vars == <<store, schema, api, pc, INTROSPECTION_SCHEMA, last>>

----------------------------------------------------------------------------
(* Bounds of the model *)

\* longest `include` list of a @fulltext directive
MaxInclude == 2
\* longest `fields` list of an include entry
MaxFields == 2

----------------------------------------------------------------------------
(* Rust's Option, Result and panics *)

None == [tag |-> "None"]
Some(v) == [tag |-> "Some", val |-> v]
Ok(v) == [tag |-> "Ok", val |-> v]
Err(e) == [tag |-> "Err", val |-> e]
Panic == [tag |-> "Panic"]
Unit == <<>>

IsSome(o) == o.tag = "Some"
IsOk(r) == r.tag = "Ok"
IsErr(r) == r.tag = "Err"

\* todo!() : evaluates to a panic wherever it is evaluated
Todo == Panic

----------------------------------------------------------------------------
(* q::Value and the ValueExt / DirectiveExt accessors *)

StringV(s) == [tag |-> "String", val |-> s]
EnumV(s) == [tag |-> "Enum", val |-> s]
IntV(n) == [tag |-> "Int", val |-> n]
ListV(l) == [tag |-> "List", val |-> l]
ObjectV(o) == [tag |-> "Object", val |-> o]

as_str(v) == IF v.tag = "String" THEN Some(v.val) ELSE None
as_enum(v) == IF v.tag = "Enum" THEN Some(v.val) ELSE None
as_list(v) == IF v.tag = "List" THEN Some(v.val) ELSE None
as_object(v) == IF v.tag = "Object" THEN Some(v.val) ELSE None

\* BTreeMap::get
get(map, key) == IF key \in DOMAIN map THEN Some(map[key]) ELSE None

\* slice::first
first(list) == IF Len(list) = 0 THEN None ELSE Some(list[1])

\* Directive::argument(name): the value of the argument called `name`
argument(directive, name) == get(directive.arguments, name)

----------------------------------------------------------------------------
(* Fulltext extractor *)

InvalidAlgorithmMessage(invalid) ==
    << "The provided fulltext search algorithm ", invalid,
       " is invalid. It must be one of: rank, proximityRank" >>

\* a slip in the match arms: the two results are swapped
FulltextAlgorithm_try_from_Swapped(algorithm) ==
    CASE algorithm = "rank" -> Ok("ProximityRank")
      [] algorithm = "proximityRank" -> Ok("Rank")
      [] OTHER -> Err(InvalidAlgorithmMessage(algorithm))

FulltextAlgorithm_try_from(algorithm) ==
    CASE algorithm = "rank" -> Ok("Rank")
      [] algorithm = "proximityRank" -> Ok("ProximityRank")
      [] OTHER -> Err(InvalidAlgorithmMessage(algorithm))

\* the closure of the map over included_field_values:
\* field.as_object().unwrap().get("name").unwrap().as_str().unwrap()
FieldName(field) ==
    LET obj == as_object(field) IN
    IF ~IsSome(obj) THEN Panic ELSE
    LET n == get(obj.val, "name") IN
    IF ~IsSome(n) THEN Panic ELSE
    LET s == as_str(n.val) IN
    IF ~IsSome(s) THEN Panic ELSE Ok(s.val)

\* .iter().map(..).collect() into a HashSet<String>
CollectFields(values) ==
    IF \E i \in 1..Len(values) : FieldName(values[i]) = Panic
    THEN Panic
    ELSE Ok({ FieldName(values[i]).val : i \in 1..Len(values) })

FulltextDefinition_from(directive) ==
    LET nameArg == argument(directive, "name") IN
    IF ~IsSome(nameArg) THEN Panic ELSE
    LET name == as_str(nameArg.val) IN
    IF ~IsSome(name) THEN Panic ELSE
    LET algArg == argument(directive, "algorithm") IN
    IF ~IsSome(algArg) THEN Panic ELSE
    LET algTok == as_enum(algArg.val) IN
    IF ~IsSome(algTok) THEN Panic ELSE
    LET algorithm == FulltextAlgorithm_try_from(algTok.val) IN
    IF ~IsOk(algorithm) THEN Panic ELSE
    LET language == Unit IN
    LET incArg == argument(directive, "include") IN
    IF ~IsSome(incArg) THEN Panic ELSE
    LET included_entity_list == as_list(incArg.val) IN
    IF ~IsSome(included_entity_list) THEN Panic ELSE
    LET firstEntity == first(included_entity_list.val) IN
    IF ~IsSome(firstEntity) THEN Panic ELSE
    LET included_entity == as_object(firstEntity.val) IN
    IF ~IsSome(included_entity) THEN Panic ELSE
    LET fieldsVal == get(included_entity.val, "fields") IN
    IF ~IsSome(fieldsVal) THEN Panic ELSE
    LET included_field_values == as_list(fieldsVal.val) IN
    IF ~IsSome(included_field_values) THEN Panic ELSE
    LET included_fields == CollectFields(included_field_values.val) IN
    IF included_fields = Panic THEN Panic ELSE
    Ok([ config |-> [language |-> language, algorithm |-> algorithm.val],
         included_fields |-> included_fields.val,
         name |-> name.val ])

----------------------------------------------------------------------------
(* Inputs of the fulltext extractor *)

SeqsUpTo(S, n) == UNION { [1..k -> S] : k \in 0..n }

FieldNames == {"title", "body"}
AlgorithmTokens == {"rank", "proximityRank", "bm25"}

FieldEntries == { ObjectV([name |-> StringV(f)]) : f \in FieldNames }
FieldLists == SeqsUpTo(FieldEntries, MaxFields)
IncludeEntries == { ObjectV([fields |-> ListV(fl)]) : fl \in FieldLists }
IncludeLists == SeqsUpTo(IncludeEntries, MaxInclude)
NameValues == { StringV("search"), EnumV("search") }

FullArguments ==
    { [name |-> n, algorithm |-> EnumV(a), include |-> ListV(il)] :
        n \in NameValues, a \in AlgorithmTokens, il \in IncludeLists }

\* directives with all three arguments, and directives lacking `algorithm`
Directives ==
    { [name |-> "fulltext", arguments |-> args] : args \in FullArguments }
    \cup
    { [name |-> "fulltext",
       arguments |-> [k \in {"name", "include"} |-> args[k]]] :
        args \in FullArguments }

\* The shape the schema validator guarantees for a @fulltext directive: a
\* string name, an enum algorithm among rank and proximityRank, and an include
\* list of exactly one entry whose fields list is not empty.
Validated(d) ==
    /\ DOMAIN d.arguments = {"name", "algorithm", "include"}
    /\ d.arguments.name.tag = "String"
    /\ d.arguments.algorithm.tag = "Enum"
    /\ d.arguments.algorithm.val \in {"rank", "proximityRank"}
    /\ d.arguments.include.tag = "List"
    /\ Len(d.arguments.include.val) = 1
    /\ d.arguments.include.val[1].tag = "Object"
    /\ "fields" \in DOMAIN d.arguments.include.val[1].val
    /\ d.arguments.include.val[1].val.fields.tag = "List"
    /\ Len(d.arguments.include.val[1].val.fields.val) >= 1

----------------------------------------------------------------------------
(* Values the variables hold outside the calls of a specification *)

NoCall == [op |-> "none"]
NoStore == [i \in {} |-> None]
NoSchema == [document |-> [definitions |-> <<>>, imports |-> {}]]
NoApi == [schema |-> NoSchema]
NoThreads == <<>>
Uninit == [state |-> "uninit", runs |-> 0]

\* FulltextDefinition::from(&directive)
ExtractFulltext(d) ==
    /\ last' = [op |-> "FulltextDefinition::from", arg |-> d,
                res |-> FulltextDefinition_from(d)]
    /\ UNCHANGED <<store, schema, api, pc, INTROSPECTION_SCHEMA>>

\* FulltextAlgorithm::try_from(token)
ParseAlgorithm(token) ==
    /\ last' = [op |-> "FulltextAlgorithm::try_from", arg |-> token,
                res |-> FulltextAlgorithm_try_from(token)]
    /\ UNCHANGED <<store, schema, api, pc, INTROSPECTION_SCHEMA>>

InitFulltext ==
    /\ store = NoStore
    /\ schema = NoSchema
    /\ api = NoApi
    /\ pc = NoThreads
    /\ INTROSPECTION_SCHEMA = Uninit
    /\ last = NoCall

NextFulltext ==
    \/ \E d \in Directives : ExtractFulltext(d)
    \/ \E token \in AlgorithmTokens : ParseAlgorithm(token)

SpecFulltext == InitFulltext /\ [][NextFulltext]_vars

----------------------------------------------------------------------------
(* Schema documents *)

\* s::Type: a named type, or a non-null or list wrapper around a type
NamedType(n) == [tag |-> "NamedType", name |-> n]
NonNullType(t) == [tag |-> "NonNullType", of |-> t]
ListType(t) == [tag |-> "ListType", of |-> t]

\* TypeExt::get_base_type: the name under the list and non-null wrappers
RECURSIVE get_base_type(_)
get_base_type(t) ==
    IF t.tag = "NamedType" THEN t.name ELSE get_base_type(t.of)

\* ObjectType::new(name): an object type with no fields and no interfaces
ObjectType_new(name) ==
    [name |-> name, fields |-> <<>>, implements_interfaces |-> <<>>]

\* ObjectTypeExt::field(name): the first field called `name`
field(obj_type, name) ==
    LET hits == { i \in 1..Len(obj_type.fields) : obj_type.fields[i].name = name }
    IN  IF hits = {} THEN None
        ELSE Some(obj_type.fields[CHOOSE i \in hits : \A j \in hits : i <= j])

\* an entity type with an `id` field of type idType
EntityType(name, idType, interfaces) ==
    [name |-> name,
     fields |-> << [name |-> "id", field_type |-> idType],
                   [name |-> "title", field_type |-> NamedType("String")] >>,
     implements_interfaces |-> interfaces]

\* a root type (Query, Subscription) as the API schema generator emits it
RootType(name) ==
    [name |-> name,
     fields |-> << [name |-> "users", field_type |-> ListType(NamedType("User"))] >>,
     implements_interfaces |-> <<>>]

\* the object type called `name` in a document, if any
ObjectTypeNamed(document, name) ==
    LET hits == { i \in 1..Len(document.definitions) :
                    document.definitions[i].name = name }
    IN  IF hits = {} THEN None
        ELSE Some(document.definitions[CHOOSE i \in hits : \A j \in hits : i <= j])

\* struct Schema
MakeSchema(definitions, imports) ==
    [document |-> [definitions |-> definitions, imports |-> imports],
     interfaces_for_type |->
        [n \in { definitions[i].name : i \in { j \in 1..Len(definitions) :
                    Len(definitions[j].implements_interfaces) > 0 } } |->
            ObjectTypeNamed([definitions |-> definitions], n).val.implements_interfaces],
     types_for_interface |->
        [f \in UNION { { definitions[i].implements_interfaces[k] :
                            k \in 1..Len(definitions[i].implements_interfaces) } :
                        i \in 1..Len(definitions) } |->
            SelectSeq(definitions,
                LAMBDA d : \E k \in 1..Len(d.implements_interfaces) :
                                d.implements_interfaces[k] = f)]]

----------------------------------------------------------------------------
(* Import resolver *)

SubgraphIds == {"QmA", "QmB"}

\* the schema deployed for a subgraph that imports from the subgraphs `imports`
DeployedSchema(imports) ==
    MakeSchema(<< EntityType("User", NamedType("ID"), <<>>) >>, imports)

\* SubgraphStore::input_schema outcomes: the schema, or the store's error: no
\* schema registered for the id, or the id known but the deployment never indexed
StoreOutcomes ==
    { Ok(DeployedSchema(imports)) : imports \in SUBSET SubgraphIds }
    \cup { Err("SchemaNotFound"), Err("DeploymentNotFound") }

Stores == [SubgraphIds -> StoreOutcomes]

\* SubgraphStore::input_schema(id)
input_schema(st, id) == st[id]

\* SchemaReference::new(subgraph)
SchemaReference_new(subgraph) == [subgraph |-> subgraph]

\* SchemaReference::resolve(&self, store)
SchemaReference_resolve(self, st) ==
    LET id == Todo IN
    IF id = Panic THEN Panic ELSE
    LET r == input_schema(st, id) IN
    IF IsOk(r) THEN r
    ELSE Err([kind |-> "ImportedSchemaNotFound", ref |-> self])

\* SchemaReference::parse(value)
SchemaReference_parse(value) ==
    IF value.tag = "Object"
    THEN LET id == get(value.val, "id") IN
         IF IsSome(id) /\ id.val.tag = "String" THEN None ELSE None
    ELSE None

\* ImportedType::parse(type_import)
ImportedType_parse(type_import) == None

\* the values an @import directive may carry in `types` and `from`
TypeImportValues ==
    { StringV("Foo"), StringV("Bar"),
      ObjectV([name |-> StringV("Foo"), as |-> StringV("Bar")]),
      ObjectV([name |-> StringV("Foo")]),
      ObjectV([name |-> IntV(1), as |-> StringV("Bar")]),
      IntV(1), ListV(<< StringV("Foo") >>) }

FromValues ==
    { ObjectV([id |-> StringV(i)]) : i \in SubgraphIds }
    \cup { ObjectV([id |-> IntV(1)]), ObjectV([name |-> StringV("QmA")]),
           StringV("QmA"), ListV(<< StringV("QmA") >>) }

\* ImportedType::parse(&value)
ParseImportedType(v) ==
    /\ last' = [op |-> "ImportedType::parse", arg |-> v,
                res |-> ImportedType_parse(v)]
    /\ UNCHANGED <<store, schema, api, pc, INTROSPECTION_SCHEMA>>

\* SchemaReference::parse(&value)
ParseSchemaReference(v) ==
    /\ last' = [op |-> "SchemaReference::parse", arg |-> v,
                res |-> SchemaReference_parse(v)]
    /\ UNCHANGED <<store, schema, api, pc, INTROSPECTION_SCHEMA>>

\* the deployed subgraph `importer` imports from `id`: the reference for that
\* import is resolved against the store
ResolveImport(importer, id) ==
    /\ IsOk(store[importer])
    /\ id \in store[importer].val.document.imports
    /\ last' = [op |-> "SchemaReference::resolve", importer |-> importer,
                id |-> id, arg |-> SchemaReference_new(Unit),
                res |-> SchemaReference_resolve(SchemaReference_new(Unit), store)]
    /\ UNCHANGED <<store, schema, api, pc, INTROSPECTION_SCHEMA>>

InitImport ==
    /\ store \in Stores
    /\ schema = NoSchema
    /\ api = NoApi
    /\ pc = NoThreads
    /\ INTROSPECTION_SCHEMA = Uninit
    /\ last = NoCall

NextImport ==
    \/ \E v \in TypeImportValues : ParseImportedType(v)
    \/ \E v \in FromValues : ParseSchemaReference(v)
    \/ \E importer \in SubgraphIds, id \in SubgraphIds : ResolveImport(importer, id)

SpecImport == InitImport /\ [][NextImport]_vars

----------------------------------------------------------------------------
(* API schema builder *)

\* fn add_introspection_schema(schema: &mut Document) {}: the document after
\* the call
add_introspection_schema(document) == document

\* HashMap::from_iter over (obj_type.name, Arc::new(obj_type)) pairs
HashMap_from_iter(object_types) ==
    [n \in { object_types[i].name : i \in 1..Len(object_types) } |->
        CHOOSE o \in { object_types[i] : i \in 1..Len(object_types) } : o.name = n]

\* from_api_schema after add_introspection_schema: lines 205-219
from_api_schema_build(api_schema) ==
    LET query_type == Todo IN
    IF query_type = Panic THEN Panic ELSE
    LET subscription_type == Todo IN
    IF subscription_type = Panic THEN Panic ELSE
    LET object_types == HashMap_from_iter(<<>>) IN
    Ok([schema |-> api_schema,
        query_type |-> query_type,
        subscription_type |-> subscription_type,
        object_types |-> object_types])

\* struct ApiSchema, as a reader holds it: the wrapped schema, the two root
\* types and the object types by name
ApiSchemaValue(s) ==
    [schema |-> s,
     query_type |-> ObjectTypeNamed(s.document, "Query").val,
     subscription_type |-> ObjectTypeNamed(s.document, "Subscription"),
     object_types |-> HashMap_from_iter(s.document.definitions)]

----------------------------------------------------------------------------
(* Identifier coercer *)

\* Schema::id_value(&self, key)
id_value(self, key) ==
    LET obj_type == ObjectType_new("name") IN
    LET a == Some(obj_type) IN
    IF ~IsSome(a)
    THEN Err(<< "Entity ", key.entity_type, "[", key.entity_id,
                "]: unknown entity type ", key.entity_type >>)
    ELSE
    LET idField == field(a.val, "id") IN
    IF ~IsSome(idField) THEN Panic ELSE
    LET base_type == get_base_type(idField.val.field_type) IN
    CASE base_type \in {"ID", "String"} ->
            Ok([tag |-> "String", val |-> key.entity_id])
      [] base_type = "Bytes" ->
            IF Todo = Panic THEN Panic ELSE Ok([tag |-> "Bytes", val |-> Todo])
      [] OTHER ->
            Err(<< "Entity type ", key.entity_type, " uses illegal type ",
                   base_type, " for id column" >>)

----------------------------------------------------------------------------
(* The schema, its readers and the API schema constructions *)

Threads == {"t1", "t2"}

IdTypes == { NamedType("ID"), NonNullType(NamedType("String")),
             NamedType("Bytes"), NonNullType(NamedType("Int")) }

RootTypeLists ==
    { <<>>, << RootType("Query") >>,
      << RootType("Query"), RootType("Subscription") >> }

Schemas ==
    { MakeSchema(<< EntityType("User", idType, interfaces) >> \o roots, {}) :
        idType \in IdTypes, interfaces \in { <<>>, << "Node" >> },
        roots \in RootTypeLists }

ApiSchemas ==
    { ApiSchemaValue(s) :
        s \in { x \in Schemas : /\ IsSome(ObjectTypeNamed(x.document, "Query"))
                                /\ field(x.document.definitions[1], "id").val.field_type
                                      = NamedType("ID") } }

\* raw entity ids, as the characters of the string
RawIds == { << "a", "b", "c" >>, << "0", "x", "1", "f" >>, << "0", "x", "z", "z" >> }

EntityKeys ==
    { [entity_type |-> ty, entity_id |-> id] :
        ty \in {"User", "Query", "Comment"}, id \in RawIds }

Idle == [at |-> "idle"]

\* ApiSchema::from_api_schema(api_schema), line 203: the thread owns its copy
\* of the schema and add_introspection_schema has run on its document
BeginFromApiSchema(t) ==
    /\ pc[t] = Idle
    /\ pc' = [pc EXCEPT ![t] =
                [at |-> "query_type",
                 arg |-> schema,
                 api_schema |-> [schema EXCEPT !.document =
                                    add_introspection_schema(schema.document)]]]
    /\ UNCHANGED <<store, schema, api, INTROSPECTION_SCHEMA, last>>

\* ApiSchema::from_api_schema, lines 205-219: the call ends
FinishFromApiSchema(t) ==
    /\ pc[t].at = "query_type"
    /\ last' = [op |-> "ApiSchema::from_api_schema", thread |-> t,
                arg |-> pc[t].arg,
                res |-> from_api_schema_build(pc[t].api_schema)]
    /\ pc' = [pc EXCEPT ![t] = Idle]
    /\ UNCHANGED <<store, schema, api, INTROSPECTION_SCHEMA>>

\* ApiSchema::document(&self)
ReadDocument(t) ==
    /\ pc[t] = Idle
    /\ last' = [op |-> "ApiSchema::document", thread |-> t,
                res |-> api.schema.document]
    /\ UNCHANGED <<store, schema, api, pc, INTROSPECTION_SCHEMA>>

\* ApiSchema::schema(&self)
ReadSchema(t) ==
    /\ pc[t] = Idle
    /\ last' = [op |-> "ApiSchema::schema", thread |-> t, res |-> api.schema]
    /\ UNCHANGED <<store, schema, api, pc, INTROSPECTION_SCHEMA>>

\* ApiSchema::types_for_interface(&self)
ReadTypesForInterface(t) ==
    /\ pc[t] = Idle
    /\ last' = [op |-> "ApiSchema::types_for_interface", thread |-> t,
                res |-> api.schema.types_for_interface]
    /\ UNCHANGED <<store, schema, api, pc, INTROSPECTION_SCHEMA>>

\* a coercer that remembers the entity types it was asked about in the schema
IdValueRemembering(t, key) ==
    /\ pc[t] = Idle
    /\ last' = [op |-> "Schema::id_value", thread |-> t, arg |-> key,
                res |-> id_value(schema, key)]
    /\ schema' = [schema EXCEPT !.document.imports = @ \cup {key.entity_type}]
    /\ UNCHANGED <<store, api, pc, INTROSPECTION_SCHEMA>>

\* Schema::id_value(&self, key)
IdValue(t, key) ==
    /\ pc[t] = Idle
    /\ last' = [op |-> "Schema::id_value", thread |-> t, arg |-> key,
                res |-> id_value(schema, key)]
    /\ UNCHANGED <<store, schema, api, pc, INTROSPECTION_SCHEMA>>

\* the stores in which QmB is deployed and imports from QmA
DeployedStores == { st \in Stores : st["QmB"] = Ok(DeployedSchema({"QmA"})) }

Init ==
    /\ store \in DeployedStores
    /\ schema \in Schemas
    /\ api \in ApiSchemas
    /\ pc = [t \in Threads |-> Idle]
    /\ INTROSPECTION_SCHEMA = Uninit
    /\ last = NoCall

Next ==
    \/ \E t \in Threads : BeginFromApiSchema(t)
    \/ \E t \in Threads : FinishFromApiSchema(t)
    \/ \E t \in Threads : ReadDocument(t)
    \/ \E t \in Threads : ReadSchema(t)
    \/ \E t \in Threads : ReadTypesForInterface(t)
    \/ \E t \in Threads, key \in EntityKeys : IdValue(t, key)
    \/ \E importer \in SubgraphIds, id \in SubgraphIds : ResolveImport(importer, id)

Spec == Init /\ [][Next]_vars

----------------------------------------------------------------------------
(* C10 *)

\* the algorithm the token of a directive stands for
AlgorithmOf(token) == IF token = "rank" THEN "Rank" ELSE "ProximityRank"

\* C10: extraction from a validated @fulltext directive yields the definition
\* whose name is the `name` argument, whose algorithm is Rank for `rank` and
\* ProximityRank for `proximityRank`, and whose included_fields is exactly the
\* set of `name` values of the `fields` list of the single include entry; and
\* try_from rejects every other token with a message naming it.
C10_FulltextExtraction ==
    /\ last.op = "FulltextDefinition::from" /\ Validated(last.arg) =>
        LET a == last.arg.arguments
            fl == a.include.val[1].val.fields.val
        IN  /\ IsOk(last.res)
            /\ last.res.val.name = a.name.val
            /\ last.res.val.config.algorithm = AlgorithmOf(a.algorithm.val)
            /\ last.res.val.included_fields =
                  { fl[i].val.name.val : i \in 1..Len(fl) }
    /\ last.op = "FulltextAlgorithm::try_from" =>
        CASE last.arg = "rank" -> last.res = Ok("Rank")
          [] last.arg = "proximityRank" -> last.res = Ok("ProximityRank")
          [] OTHER -> /\ IsErr(last.res)
                      /\ \E i \in 1..Len(last.res.val) :
                            last.res.val[i] = last.arg

\* a validated directive with two distinct fields has been extracted
C10_Witness ==
    /\ last.op = "FulltextDefinition::from"
    /\ Validated(last.arg)
    /\ IsOk(last.res)
    /\ Cardinality(last.res.val.included_fields) = 2
    /\ last.res.val.config.algorithm = "ProximityRank"

----------------------------------------------------------------------------
(* C1, C5, C6, C8: the import resolver *)

\* C1: resolve returns the store's schema when it has one, ImportedSchemaNotFound
\* when no schema is registered for the referenced id, and
\* ImportedSubgraphNotFound when the id is known but was never deployed.
C1_ResolveDistinguishesFailures ==
    last.op = "SchemaReference::resolve" =>
        LET o == input_schema(store, last.id) IN
        CASE IsOk(o) -> last.res = o
          [] o = Err("SchemaNotFound") ->
                /\ IsErr(last.res)
                /\ last.res.val.kind = "ImportedSchemaNotFound"
          [] o = Err("DeploymentNotFound") ->
                /\ IsErr(last.res)
                /\ last.res.val.kind = "ImportedSubgraphNotFound"

\* C5: ImportedType::parse maps a bare string s to {name: s, alias: s,
\* explicit: false}, an object with `name` and `as` to {name, alias: as,
\* explicit: true}, and any other shape to nothing.
C5_ImportedTypeParse ==
    last.op = "ImportedType::parse" =>
        LET v == last.arg IN
        CASE v.tag = "String" ->
                last.res = Some([name |-> v.val, alias |-> v.val, explicit |-> FALSE])
          [] /\ v.tag = "Object"
             /\ DOMAIN v.val = {"name", "as"}
             /\ v.val.name.tag = "String"
             /\ v.val.as.tag = "String" ->
                last.res = Some([name |-> v.val.name.val, alias |-> v.val.as.val,
                                 explicit |-> TRUE])
          [] OTHER -> last.res = None

\* C6: SchemaReference::parse yields a reference to deployment `id` for an
\* object with a string `id` field and nothing for every other shape.
C6_SchemaReferenceParse ==
    last.op = "SchemaReference::parse" =>
        LET v == last.arg IN
        IF /\ v.tag = "Object"
           /\ "id" \in DOMAIN v.val
           /\ v.val.id.tag = "String"
        THEN last.res = Some(SchemaReference_new(v.val.id.val))
        ELSE last.res = None

\* the subgraphs a deployed subgraph imports from
ImportsOf(st, i) == IF IsOk(st[i]) THEN st[i].val.document.imports ELSE {}

\* b is reached from a by following at most n imports
RECURSIVE Reaches(_, _, _, _)
Reaches(st, a, b, n) ==
    /\ n > 0
    /\ \/ b \in ImportsOf(st, a)
       \/ \E c \in ImportsOf(st, a) : Reaches(st, c, b, n - 1)

\* the import of `id` by `importer` lies on a cycle of imports
OnCycle(st, importer, id) ==
    /\ id \in ImportsOf(st, importer)
    /\ \/ id = importer
       \/ Reaches(st, id, importer, Cardinality(SubgraphIds))

\* C8: resolving an import that lies on a cycle of imports ends with a
\* rejection (an import error), not with unbounded recursion or an abort.
C8_CyclicImportsRejected ==
    /\ last.op = "SchemaReference::resolve"
    /\ OnCycle(store, last.importer, last.id)
    => IsErr(last.res)

----------------------------------------------------------------------------
(* C2: the identifier coercer *)

HexDigits ==
    [c \in {"0", "1", "2", "3", "4", "5", "6", "7", "8", "9",
            "a", "b", "c", "d", "e", "f"} |->
        CASE c = "0" -> 0 [] c = "1" -> 1 [] c = "2" -> 2 [] c = "3" -> 3
          [] c = "4" -> 4 [] c = "5" -> 5 [] c = "6" -> 6 [] c = "7" -> 7
          [] c = "8" -> 8 [] c = "9" -> 9 [] c = "a" -> 10 [] c = "b" -> 11
          [] c = "c" -> 12 [] c = "d" -> 13 [] c = "e" -> 14 [] c = "f" -> 15]

\* the bytes a hex string (with or without the 0x prefix) stands for
HexDecode(raw) ==
    LET digits == IF Len(raw) >= 2 /\ raw[1] = "0" /\ raw[2] = "x"
                  THEN SubSeq(raw, 3, Len(raw)) ELSE raw
    IN  IF \/ Len(digits) % 2 # 0
           \/ \E i \in 1..Len(digits) : digits[i] \notin DOMAIN HexDigits
        THEN Err("malformed hex")
        ELSE Ok([i \in 1..(Len(digits) \div 2) |->
                    16 * HexDigits[digits[2 * i - 1]] + HexDigits[digits[2 * i]]])

\* C2: id_value never aborts, and for an entity type with an `id` field its
\* result is decided by that field's base type: ID or String give the raw id
\* as a string value, Bytes gives the hex-decoded bytes or a decode error, and
\* any other base type an error naming the entity type and the declared type.
C2_IdValueByDeclaredType ==
    last.op = "Schema::id_value" =>
        LET ty == ObjectTypeNamed(schema.document, last.arg.entity_type)
            raw == last.arg.entity_id
        IN  /\ last.res.tag # "Panic"
            /\ IsSome(ty) /\ IsSome(field(ty.val, "id")) =>
                LET base == get_base_type(field(ty.val, "id").val.field_type) IN
                CASE base \in {"ID", "String"} ->
                        last.res = Ok([tag |-> "String", val |-> raw])
                  [] base = "Bytes" ->
                        IF IsOk(HexDecode(raw))
                        THEN last.res = Ok([tag |-> "Bytes", val |-> HexDecode(raw).val])
                        ELSE IsErr(last.res)
                  [] OTHER ->
                        /\ IsErr(last.res)
                        /\ \E i \in 1..Len(last.res.val) :
                                last.res.val[i] = last.arg.entity_type
                        /\ \E i \in 1..Len(last.res.val) : last.res.val[i] = base

----------------------------------------------------------------------------
(* C3, C4, C7: the API schema builder *)

\* C3: construction fails with an error when the document has no object type
\* called Query, and otherwise returns an ApiSchema whose query_type is the
\* Query type and whose subscription_type is the Subscription type if the
\* document has one.
C3_QueryTypeRequired ==
    last.op = "ApiSchema::from_api_schema" =>
        LET q == ObjectTypeNamed(last.arg.document, "Query")
            sub == ObjectTypeNamed(last.arg.document, "Subscription")
        IN  IF ~IsSome(q) THEN IsErr(last.res)
            ELSE /\ IsOk(last.res)
                 /\ last.res.val.query_type.name = "Query"
                 /\ last.res.val.subscription_type.tag = sub.tag
                 /\ IsSome(sub) =>
                        last.res.val.subscription_type.val.name = "Subscription"

----------------------------------------------------------------------------
(* C9: immutability *)

\* C9: no call of a reader (document, schema, types_for_interface, id_value,
\* resolve), by any thread and in any order, changes the Schema or the
\* ApiSchema: every step leaves document, interfaces_for_type,
\* types_for_interface, query_type, subscription_type and object_types as
\* they were.
C9_ValuesImmutable ==
    [][/\ schema' = schema
       /\ api' = api]_vars

\* a reader has read the interface table of an ApiSchema that has one while the
\* other thread is inside from_api_schema
C9_Witness ==
    /\ last.op = "ApiSchema::types_for_interface"
    /\ last.thread = "t2"
    /\ last.res = api.schema.types_for_interface
    /\ DOMAIN last.res # {}
    /\ pc["t1"].at = "query_type"

====
